---------------------------- MODULE Spec2Model ----------------------------
(***************************************************************************)
(* Model of firmware/badge/apps/tetris.py: the Tetris application of the   *)
(* badge.  The state is the fields of the Tetris object plus the clock     *)
(* read through time.ticks_ms(); there is one action per handler the host  *)
(* calls (switch_to_foreground, run_foreground).  The methods of the class *)
(* are operators from a state record to a state record, written in the     *)
(* order of the statements of the method.                                  *)
(*                                                                         *)
(* The board is a sequence of rows, each a sequence of cells: the Python   *)
(* cell board[y][x] is board[y + 1][x + 1] here.  The lvgl objects         *)
(* (block_objects, the labels) are what is drawn from this state and are   *)
(* left out; page is kept as present ("Page") or None.  The clock is the   *)
(* variable now; time.ticks_diff is the difference of two readings.        *)
(***************************************************************************)
EXTENDS Integers, Sequences, FiniteSets

(***************************************************************************)
(* Bounds.  The program's board is 40 x 9 (tetris.py:11-12); the model     *)
(* explores a narrower and lower board, on which every piece still spawns  *)
(* inside the walls, and stops the clock at MaxTime.                       *)
(***************************************************************************)
BOARD_WIDTH == 5

BOARD_HEIGHT == 4

MaxTime == 500

(***************************************************************************)
(* Program constants.                                                      *)
(***************************************************************************)
fall_interval == 500

LINE_SCORE == 100

None == "None"

NoRotation == -1

PieceTypes == {"I", "O", "T", "S", "Z", "J", "L"}

PIECES ==
    [p \in PieceTypes |->
        CASE p = "I" -> << << <<-1, 0>>, <<0, 0>>, <<1, 0>>, <<2, 0>> >> >>
          [] p = "O" -> << << <<0, 0>>, <<1, 0>>, <<0, 1>>, <<1, 1>> >> >>
          [] p = "T" -> << << <<0, -1>>, <<-1, 0>>, <<0, 0>>, <<1, 0>> >>,
                           << <<0, -1>>, <<0, 0>>, <<0, 1>>, <<1, 0>> >>,
                           << <<0, -1>>, <<-1, 0>>, <<0, 0>>, <<0, 1>> >>,
                           << <<0, -1>>, <<-1, 0>>, <<0, 0>>, <<1, 0>> >> >>
          [] p = "S" -> << << <<-1, 0>>, <<0, 0>>, <<0, -1>>, <<1, -1>> >>,
                           << <<0, -1>>, <<0, 0>>, <<1, 0>>, <<1, 1>> >>,
                           << <<-1, 0>>, <<0, 0>>, <<0, -1>>, <<1, -1>> >>,
                           << <<0, -1>>, <<0, 0>>, <<1, 0>>, <<1, 1>> >> >>
          [] p = "Z" -> << << <<-1, -1>>, <<0, -1>>, <<0, 0>>, <<1, 0>> >>,
                           << <<0, 0>>, <<1, -1>>, <<0, -1>>, <<1, 0>> >>,
                           << <<-1, -1>>, <<0, -1>>, <<0, 0>>, <<1, 0>> >>,
                           << <<0, 0>>, <<1, -1>>, <<0, -1>>, <<1, 0>> >> >>
          [] p = "J" -> << << <<-1, -1>>, <<-1, 0>>, <<0, 0>>, <<1, 0>> >>,
                           << <<0, -1>>, <<1, -1>>, <<0, 0>>, <<0, 1>> >>,
                           << <<-1, 0>>, <<0, 0>>, <<1, 0>>, <<1, 1>> >>,
                           << <<0, -1>>, <<0, 0>>, <<-1, 1>>, <<0, 1>> >> >>
          [] p = "L" -> << << <<1, -1>>, <<-1, 0>>, <<0, 0>>, <<1, 0>> >>,
                           << <<0, -1>>, <<0, 0>>, <<0, 1>>, <<1, 1>> >>,
                           << <<-1, 0>>, <<0, 0>>, <<1, 0>>, <<-1, 1>> >>,
                           << <<-1, -1>>, <<0, -1>>, <<0, 0>>, <<0, 1>> >> >>]

piece_colors ==
    [p \in PieceTypes |->
        CASE p = "I" -> 65535
          [] p = "O" -> 16776960
          [] p = "T" -> 8388736
          [] p = "S" -> 65280
          [] p = "Z" -> 16711680
          [] p = "J" -> 255
          [] p = "L" -> 16753920]

(***************************************************************************)
(* The keys read by run_foreground: read_key() gives one of the arrow keys *)
(* or none; f1()..f4() and f5() are polled separately.                     *)
(***************************************************************************)
Keys == {"NONE", "LEFT", "RIGHT", "DOWN", "UP"}

(* The time that passes between two calls of the host, in milliseconds.    *)
ElapsedSet == {0, 250, 500}

VARIABLES board, current_piece, current_x, current_y, current_rotation,
          fall_time, score, game_over, page, now

vars == <<board, current_piece, current_x, current_y, current_rotation,
          fall_time, score, game_over, page, now>>

(* The fields of the Tetris object, as one record.                         *)
self ==
    [board |-> board, current_piece |-> current_piece,
     current_x |-> current_x, current_y |-> current_y,
     current_rotation |-> current_rotation, fall_time |-> fall_time,
     score |-> score, game_over |-> game_over, page |-> page]

EmptyRow == [x \in 1..BOARD_WIDTH |-> 0]

EmptyBoard == [y \in 1..BOARD_HEIGHT |-> EmptyRow]

(* check_collision without the test of the board: walls and floor only.    *)
check_collision_walls_only(s, dx, dy, rotation) ==
    IF s.current_piece = None THEN TRUE
    ELSE LET rotations == PIECES[s.current_piece]
             rot == IF rotation # NoRotation THEN rotation ELSE s.current_rotation
             shape == rotations[(rot % Len(rotations)) + 1]
         IN \E i \in 1..Len(shape) :
               LET x == s.current_x + dx + shape[i][1]
                   y == s.current_y + dy + shape[i][2]
               IN \/ x < 0
                  \/ x >= BOARD_WIDTH
                  \/ y >= BOARD_HEIGHT

(* check_collision that skips the cells above the board altogether.        *)
check_collision_skips_above(s, dx, dy, rotation) ==
    IF s.current_piece = None THEN TRUE
    ELSE LET rotations == PIECES[s.current_piece]
             rot == IF rotation # NoRotation THEN rotation ELSE s.current_rotation
             shape == rotations[(rot % Len(rotations)) + 1]
         IN \E i \in 1..Len(shape) :
               LET x == s.current_x + dx + shape[i][1]
                   y == s.current_y + dy + shape[i][2]
               IN /\ y >= 0
                  /\ \/ x < 0
                     \/ x >= BOARD_WIDTH
                     \/ y >= BOARD_HEIGHT
                     \/ s.board[y + 1][x + 1] # 0

(***************************************************************************)
(* check_collision(dx, dy, rotation): TRUE without a piece; otherwise TRUE *)
(* when a cell of the shape is beyond a side wall or the floor, or is on   *)
(* an occupied cell of a row >= 0.  The loop returns at the first such     *)
(* cell; the cell's bounds are tested before the board is indexed.         *)
(***************************************************************************)
check_collision(s, dx, dy, rotation) ==
    IF s.current_piece = None THEN TRUE
    ELSE LET rotations == PIECES[s.current_piece]
             rot == IF rotation # NoRotation THEN rotation ELSE s.current_rotation
             shape == rotations[(rot % Len(rotations)) + 1]
         IN \E i \in 1..Len(shape) :
               LET x == s.current_x + dx + shape[i][1]
                   y == s.current_y + dy + shape[i][2]
               IN \/ x < 0
                  \/ x >= BOARD_WIDTH
                  \/ y >= BOARD_HEIGHT
                  \/ (y >= 0 /\ s.board[y + 1][x + 1] # 0)

(* get_piece_cells that keeps the cells above the board, moved to row 0.   *)
get_piece_cells_clamped(s) ==
    IF s.current_piece = None THEN << >>
    ELSE LET rotations == PIECES[s.current_piece]
             shape == rotations[(s.current_rotation % Len(rotations)) + 1]
             row(y) == IF y < 0 THEN 0 ELSE y
         IN [i \in 1..Len(shape) |->
                <<s.current_x + shape[i][1], row(s.current_y + shape[i][2])>>]

(***************************************************************************)
(* get_piece_cells(): the <<x, y>> cells of the piece in its current       *)
(* rotation whose row is on the board, in the order of the shape table.    *)
(***************************************************************************)
get_piece_cells(s) ==
    IF s.current_piece = None THEN << >>
    ELSE LET rotations == PIECES[s.current_piece]
             shape == rotations[(s.current_rotation % Len(rotations)) + 1]
             abs(i) == <<s.current_x + shape[i][1], s.current_y + shape[i][2]>>
             keep(c) == 0 <= c[2] /\ c[2] < BOARD_HEIGHT
         IN SelectSeq([i \in 1..Len(shape) |-> abs(i)], keep)

(* new_piece that removes the piece when it collides at the spawn.         *)
new_piece_drops_piece(s, piece_type) ==
    LET s1 == [s EXCEPT !.current_piece = piece_type,
                        !.current_x = BOARD_WIDTH \div 2,
                        !.current_y = 0,
                        !.current_rotation = 0]
    IN IF check_collision(s1, 0, 0, NoRotation)
       THEN [s1 EXCEPT !.game_over = TRUE, !.current_piece = None]
       ELSE s1

(***************************************************************************)
(* new_piece(): piece_type is the outcome of random.choice.                *)
(***************************************************************************)
new_piece(s, piece_type) ==
    LET s1 == [s EXCEPT !.current_piece = piece_type,
                        !.current_x = BOARD_WIDTH \div 2,
                        !.current_y = 0,
                        !.current_rotation = 0]
    IN IF check_collision(s1, 0, 0, NoRotation)
       THEN [s1 EXCEPT !.game_over = TRUE]
       ELSE s1

(***************************************************************************)
(* clear_lines(): the scan from the bottom row up.  A full row is deleted  *)
(* and an empty row inserted at the top, and the same index is looked at   *)
(* again; otherwise the index goes up one row.                             *)
(***************************************************************************)
(* The test of a full row that does not look at the first column.          *)
row_full_but_first(row) == \A x \in 2..BOARD_WIDTH : row[x] # 0

row_full(row) == \A x \in 1..BOARD_WIDTH : row[x] # 0

delete_row(b, y) == [j \in 1..(Len(b) - 1) |-> IF j < y + 1 THEN b[j] ELSE b[j + 1]]

(* The scan that moves on to the row above after removing a full row.      *)
RECURSIVE clear_loop_skips(_, _, _)
clear_loop_skips(b, y, lines_cleared) ==
    IF y >= 0
    THEN IF row_full(b[y + 1])
         THEN clear_loop_skips(<<EmptyRow>> \o delete_row(b, y), y - 1,
                               lines_cleared + 1)
         ELSE clear_loop_skips(b, y - 1, lines_cleared)
    ELSE [board |-> b, lines_cleared |-> lines_cleared]

(* The scan that deletes a full row and inserts no empty row at the top.   *)
RECURSIVE clear_loop_no_insert(_, _, _)
clear_loop_no_insert(b, y, lines_cleared) ==
    IF y >= 0
    THEN IF row_full(b[y + 1])
         THEN clear_loop_no_insert(delete_row(b, y), y - 1, lines_cleared + 1)
         ELSE clear_loop_no_insert(b, y - 1, lines_cleared)
    ELSE [board |-> b, lines_cleared |-> lines_cleared]

(* The scan that stops after the first full row it removes.                *)
clear_loop_once(b, y, lines_cleared) ==
    LET full == {j \in 0..y : row_full(b[j + 1])}
    IN IF full = {} THEN [board |-> b, lines_cleared |-> lines_cleared]
       ELSE LET j == CHOOSE j \in full : \A i \in full : i <= j
            IN [board |-> <<EmptyRow>> \o delete_row(b, j),
                lines_cleared |-> lines_cleared + 1]

RECURSIVE clear_loop(_, _, _)
clear_loop(b, y, lines_cleared) ==
    IF y >= 0
    THEN IF row_full(b[y + 1])
         THEN clear_loop(<<EmptyRow>> \o delete_row(b, y), y, lines_cleared + 1)
         ELSE clear_loop(b, y - 1, lines_cleared)
    ELSE [board |-> b, lines_cleared |-> lines_cleared]

clear_lines(s) ==
    LET r == clear_loop(s.board, BOARD_HEIGHT - 1, 0)
    IN [s EXCEPT !.board = r.board,
                 !.score = s.score + r.lines_cleared * LINE_SCORE]

(***************************************************************************)
(* lock_piece(): writes the colour of the piece into its cells, then       *)
(* clear_lines() and new_piece().                                          *)
(***************************************************************************)
RECURSIVE write_cells(_, _, _, _)
write_cells(b, cells, i, color) ==
    IF i > Len(cells) THEN b
    ELSE LET x == cells[i][1]
             y == cells[i][2]
         IN IF 0 <= y /\ y < BOARD_HEIGHT /\ 0 <= x /\ x < BOARD_WIDTH
            THEN write_cells([b EXCEPT ![y + 1][x + 1] = color], cells, i + 1, color)
            ELSE write_cells(b, cells, i + 1, color)

lock_cells(s) ==
    [s EXCEPT !.board = write_cells(s.board, get_piece_cells(s), 1,
                                    piece_colors[s.current_piece])]

lock_piece(s, piece_type) ==
    IF s.current_piece = None THEN s
    ELSE new_piece(clear_lines(lock_cells(s)), piece_type)

(***************************************************************************)
(* The moves: each gives the state after the call and the value returned.  *)
(***************************************************************************)
(* move_left without the collision test.                                   *)
move_left_unchecked(s) ==
    [st |-> [s EXCEPT !.current_x = s.current_x - 1], ret |-> TRUE]

move_left(s) ==
    IF ~check_collision(s, -1, 0, NoRotation)
    THEN [st |-> [s EXCEPT !.current_x = s.current_x - 1], ret |-> TRUE]
    ELSE [st |-> s, ret |-> FALSE]

move_right(s) ==
    IF ~check_collision(s, 1, 0, NoRotation)
    THEN [st |-> [s EXCEPT !.current_x = s.current_x + 1], ret |-> TRUE]
    ELSE [st |-> s, ret |-> FALSE]

(* move_down without the collision test.                                   *)
move_down_unchecked(s) ==
    [st |-> [s EXCEPT !.current_y = s.current_y + 1], ret |-> TRUE]

move_down(s) ==
    IF ~check_collision(s, 0, 1, NoRotation)
    THEN [st |-> [s EXCEPT !.current_y = s.current_y + 1], ret |-> TRUE]
    ELSE [st |-> s, ret |-> FALSE]

(* rotate that tries one column to the right when the rotation collides.   *)
rotate_with_kick(s) ==
    IF s.current_piece = None THEN [st |-> s, ret |-> FALSE]
    ELSE LET new_rotation == (s.current_rotation + 1) % Len(PIECES[s.current_piece])
         IN IF ~check_collision(s, 0, 0, new_rotation)
            THEN [st |-> [s EXCEPT !.current_rotation = new_rotation], ret |-> TRUE]
            ELSE IF ~check_collision(s, 1, 0, new_rotation)
            THEN [st |-> [s EXCEPT !.current_rotation = new_rotation,
                                   !.current_x = s.current_x + 1], ret |-> TRUE]
            ELSE [st |-> s, ret |-> FALSE]

rotate(s) ==
    IF s.current_piece = None THEN [st |-> s, ret |-> FALSE]
    ELSE LET new_rotation == (s.current_rotation + 1) % Len(PIECES[s.current_piece])
         IN IF ~check_collision(s, 0, 0, new_rotation)
            THEN [st |-> [s EXCEPT !.current_rotation = new_rotation], ret |-> TRUE]
            ELSE [st |-> s, ret |-> FALSE]

(***************************************************************************)
(* reset_game(): t is the value of time.ticks_ms().                        *)
(***************************************************************************)
(* reset_game that forgets to empty the board.                             *)
reset_game_keeps_board(s, t, piece_type) ==
    new_piece([s EXCEPT !.score = 0,
                        !.game_over = FALSE,
                        !.fall_time = t],
              piece_type)

reset_game(s, t, piece_type) ==
    new_piece([s EXCEPT !.board = EmptyBoard,
                        !.score = 0,
                        !.game_over = FALSE,
                        !.fall_time = t],
              piece_type)

switch_to_background(s) == [s EXCEPT !.page = None]

(* switch_to_foreground that spawns whether or not a piece exists.         *)
switch_to_foreground_always_spawns(s, t, piece_type) ==
    new_piece([s EXCEPT !.page = "Page", !.fall_time = t], piece_type)

(* switch_to_foreground that never spawns.                                 *)
switch_to_foreground_no_spawn(s, t, piece_type) ==
    [s EXCEPT !.page = "Page", !.fall_time = t]

switch_to_foreground(s, t, piece_type) ==
    LET s1 == [s EXCEPT !.page = "Page", !.fall_time = t]
    IN IF s1.current_piece = None THEN new_piece(s1, piece_type) ELSE s1

(* handle_input in which a LEFT, RIGHT or UP key restarts the fall timer.  *)
handle_input_lateral_resets(s, key, t) ==
    IF key = "LEFT" THEN [move_left(s).st EXCEPT !.fall_time = t]
    ELSE IF key = "RIGHT" THEN [move_right(s).st EXCEPT !.fall_time = t]
    ELSE IF key = "DOWN"
         THEN LET r == move_down(s)
              IN IF r.ret THEN [r.st EXCEPT !.fall_time = t] ELSE r.st
    ELSE IF key = "UP" THEN [rotate(s).st EXCEPT !.fall_time = t]
    ELSE s

(* handle_input that leaves the fall timer alone after a soft drop.        *)
handle_input_never_resets(s, key, t) ==
    IF key = "LEFT" THEN move_left(s).st
    ELSE IF key = "RIGHT" THEN move_right(s).st
    ELSE IF key = "DOWN" THEN move_down(s).st
    ELSE IF key = "UP" THEN rotate(s).st
    ELSE s

(* handle_input that restarts the fall timer on every DOWN key, moved or   *)
(* not.                                                                    *)
handle_input_always_resets(s, key, t) ==
    IF key = "LEFT" THEN move_left(s).st
    ELSE IF key = "RIGHT" THEN move_right(s).st
    ELSE IF key = "DOWN" THEN [move_down(s).st EXCEPT !.fall_time = t]
    ELSE IF key = "UP" THEN rotate(s).st
    ELSE s

(***************************************************************************)
(* run_foreground(): one pass of the game loop.  key is what read_key()    *)
(* returns, f14 whether one of f1()..f4() is pressed, f5 whether f5() is,  *)
(* t the value time.ticks_ms() has during the pass (the two reads of a     *)
(* pass are taken to give the same millisecond), piece_type the outcome of *)
(* random.choice should a piece be spawned.                                *)
(***************************************************************************)
handle_input(s, key, t) ==
    IF key = "LEFT" THEN move_left(s).st
    ELSE IF key = "RIGHT" THEN move_right(s).st
    ELSE IF key = "DOWN"
         THEN LET r == move_down(s)
              IN IF r.ret THEN [r.st EXCEPT !.fall_time = t] ELSE r.st
    ELSE IF key = "UP" THEN rotate(s).st
    ELSE s

(* auto_fall that waits for more than the interval.                        *)
auto_fall_strict(s, t, piece_type) ==
    IF t - s.fall_time > fall_interval
    THEN LET r == move_down(s)
             s1 == IF ~r.ret THEN lock_piece(r.st, piece_type) ELSE r.st
         IN [s1 EXCEPT !.fall_time = t]
    ELSE s

auto_fall(s, t, piece_type) ==
    IF t - s.fall_time >= fall_interval
    THEN LET r == move_down(s)
             s1 == IF ~r.ret THEN lock_piece(r.st, piece_type) ELSE r.st
         IN [s1 EXCEPT !.fall_time = t]
    ELSE s

(* run_foreground without the early return of the game-over branch.        *)
run_foreground_no_gate(s, key, f14, f5, t, piece_type) ==
    IF s.game_over /\ f14
    THEN reset_game(s, t, piece_type)
    ELSE LET s1 == auto_fall(handle_input(s, key, t), t, piece_type)
         IN IF f5 THEN switch_to_background(s1) ELSE s1

run_foreground(s, key, f14, f5, t, piece_type) ==
    IF s.game_over
    THEN IF f14 THEN reset_game(s, t, piece_type)
         ELSE IF f5 THEN switch_to_background(s)
         ELSE s
    ELSE LET s1 == auto_fall(handle_input(s, key, t), t, piece_type)
         IN IF f5 THEN switch_to_background(s1) ELSE s1

(***************************************************************************)
(* The state machine.                                                      *)
(***************************************************************************)
Commit(s, t) ==
    /\ board' = s.board
    /\ current_piece' = s.current_piece
    /\ current_x' = s.current_x
    /\ current_y' = s.current_y
    /\ current_rotation' = s.current_rotation
    /\ fall_time' = s.fall_time
    /\ score' = s.score
    /\ game_over' = s.game_over
    /\ page' = s.page
    /\ now' = t

(***************************************************************************)
(* Boards that play leaves behind, for any board of at least 5 x 3:        *)
(*   BoardI : one I piece locked at the left of the bottom row (the I      *)
(*            moved left to x = 1 and fell to the floor);                  *)
(*   BoardOO: two O pieces locked side by side at the bottom left (the     *)
(*            first moved left to x = 0, the second to x = 2, and both     *)
(*            fell to the floor).                                          *)
(*   BoardStack: pieces that fell straight down from where they spawn, x  *)
(*            = BOARD_WIDTH \div 2: I pieces on top of each other from the  *)
(*            floor up to row 3, and one O piece on them in rows 1 and 2.  *)
(*            Row 0 is free: an O spawned on it collides, the other pieces *)
(*            rest on the stack where they spawn.                          *)
(* None of these locks fills a row, so the score is still 0.               *)
(***************************************************************************)
BoardI ==
    [y \in 1..BOARD_HEIGHT |->
        [x \in 1..BOARD_WIDTH |->
            IF y = BOARD_HEIGHT /\ x <= 4 THEN piece_colors["I"] ELSE 0]]

BoardOO ==
    [y \in 1..BOARD_HEIGHT |->
        [x \in 1..BOARD_WIDTH |->
            IF y >= BOARD_HEIGHT - 1 /\ x <= 4 THEN piece_colors["O"] ELSE 0]]

BoardStack ==
    [y \in 1..BOARD_HEIGHT |->
        [x \in 1..BOARD_WIDTH |->
            IF /\ y - 1 \in {1, 2}
               /\ x - 1 \in {BOARD_WIDTH \div 2, BOARD_WIDTH \div 2 + 1}
            THEN piece_colors["O"]
            ELSE IF /\ y - 1 >= 3
                    /\ x - 1 \in (BOARD_WIDTH \div 2 - 1)..(BOARD_WIDTH \div 2 + 2)
            THEN piece_colors["I"]
            ELSE 0]]

StartBoards == {BoardI, BoardOO, BoardStack}

(* The object as __init__ leaves it.                                       *)
Constructed ==
    [board |-> EmptyBoard, current_piece |-> None, current_x |-> 0,
     current_y |-> 0, current_rotation |-> 0, fall_time |-> 0, score |-> 0,
     game_over |-> FALSE, page |-> None]

(* The object in the foreground right after the lock that left board b:    *)
(* lock_piece has spawned the next piece and the pass has set fall_time.   *)
MidGame(b, piece_type) ==
    new_piece([Constructed EXCEPT !.board = b, !.page = "Page"], piece_type)

(***************************************************************************)
(* The initial states: the constructed object, or a game in progress on    *)
(* one of the start boards (a game that is over, when the piece spawned on *)
(* that board collides).  The clock starts at 0.                           *)
(***************************************************************************)
Init ==
    /\ now = 0
    /\ \E s \in {Constructed} \cup
                 {MidGame(b, p) : b \in StartBoards, p \in PieceTypes} :
          /\ board = s.board
          /\ current_piece = s.current_piece
          /\ current_x = s.current_x
          /\ current_y = s.current_y
          /\ current_rotation = s.current_rotation
          /\ fall_time = s.fall_time
          /\ score = s.score
          /\ game_over = s.game_over
          /\ page = s.page

(***************************************************************************)
(* random.choice is drawn only in a pass that reaches new_piece.  a and b  *)
(* are the outcomes of the pass for two different draws: they differ in    *)
(* current_piece exactly when the pass spawned, and only then does every   *)
(* one of the seven draws give its own successor.                          *)
(***************************************************************************)
Draws(a, b) == IF a.current_piece = b.current_piece THEN {"I"} ELSE PieceTypes

(* The host brings the application to the foreground, e ms after the       *)
(* previous call.                                                          *)
SwitchToForeground(e) ==
    /\ page = None
    /\ now + e <= MaxTime
    /\ \E piece_type \in Draws(switch_to_foreground(self, now + e, "I"),
                                switch_to_foreground(self, now + e, "O")) :
          \E s \in {switch_to_foreground(self, now + e, piece_type)} :
             Commit(s, now + e)

(* The host calls run_foreground, e ms after the previous call, while the  *)
(* application is in the foreground.                                       *)
RunForeground(e, key, f14, f5) ==
    /\ page # None
    /\ now + e <= MaxTime
    /\ \E piece_type \in Draws(run_foreground(self, key, f14, f5, now + e, "I"),
                                run_foreground(self, key, f14, f5, now + e, "O")) :
          \E s \in {run_foreground(self, key, f14, f5, now + e, piece_type)} :
             Commit(s, now + e)

Next ==
    \/ \E e \in ElapsedSet : SwitchToForeground(e)
    \/ \E e \in ElapsedSet, key \in Keys, f14 \in BOOLEAN, f5 \in BOOLEAN :
          RunForeground(e, key, f14, f5)

Spec == Init /\ [][Next]_vars

(***************************************************************************)
(* The properties.  The cells of a piece are computed here from the shape  *)
(* table alone, not through get_piece_cells or check_collision.            *)
(***************************************************************************)
Shape(p, r) == PIECES[p][(r % Len(PIECES[p])) + 1]

CellsAt(p, x, y, r) ==
    {<<x + Shape(p, r)[i][1], y + Shape(p, r)[i][2]>> : i \in 1..Len(Shape(p, r))}

ActiveCells ==
    IF current_piece = None THEN {}
    ELSE CellsAt(current_piece, current_x, current_y, current_rotation)

InWalls(c) == 0 <= c[1] /\ c[1] < BOARD_WIDTH /\ c[2] < BOARD_HEIGHT

Filled(b, c) == c[2] >= 0 /\ b[c[2] + 1][c[1] + 1] # 0

Blocked(b, cells) == \E c \in cells : ~InWalls(c) \/ Filled(b, c)

(* C1: once a piece has been spawned, every cell of the active piece       *)
(* (pivot plus the offsets of its rotation state) has 0 <= x < BOARD_WIDTH *)
(* and y < BOARD_HEIGHT, in every reachable state.                         *)
C1_PieceInsideWalls ==
    current_piece # None => \A c \in ActiveCells : InWalls(c)

(* A rotated piece that touches the left wall and the floor.               *)
C1_Witness ==
    /\ current_piece # None
    /\ ~game_over
    /\ current_rotation # 0
    /\ \E c \in ActiveCells : c[1] = 0
    /\ \E c \in ActiveCells : c[2] = BOARD_HEIGHT - 1

(* C2, as claimed: in every reachable state, the game-over state included, *)
(* no cell of the active piece with row >= 0 is on an occupied board cell. *)
C2_NoOverlapEver ==
    \A c \in ActiveCells : InWalls(c) => ~Filled(board, c)

(* C2, amended: in every reachable state in which game_over is false, no   *)
(* cell of the active piece with row >= 0 is on an occupied board cell.    *)
C2_NoOverlapWhilePlaying ==
    ~game_over => \A c \in ActiveCells : InWalls(c) => ~Filled(board, c)

(* A falling piece with a cell right above an occupied cell.               *)
C2_Witness ==
    /\ ~game_over
    /\ current_y > 0
    /\ \E c \in ActiveCells :
          /\ InWalls(c)
          /\ c[2] >= 0
          /\ c[2] + 1 < BOARD_HEIGHT
          /\ Filled(board, <<c[1], c[2] + 1>>)

(* C3: a pass of run_foreground made while game_over is true that is not  *)
(* a restart (game_over is still true after it), whatever the key, f5 and  *)
(* the elapsed time, leaves the board, the piece, its position and         *)
(* rotation, the score, fall_time and game_over unchanged.                 *)
C3_GameOverFrozen ==
    [][(game_over /\ page # None /\ game_over')
       => UNCHANGED <<board, current_piece, current_x, current_y,
                      current_rotation, score, fall_time, game_over>>]_vars

(* Game over, and time has passed since the pass that set it.              *)
C3_Witness == game_over /\ now > fall_time

(***************************************************************************)
(* What a pass does, in the words of the properties: the state after the   *)
(* key has been handled, whether gravity is due then, whether the piece    *)
(* can fall, the board with the piece written into it, and that board with *)
(* its full rows taken out.                                                *)
(***************************************************************************)
AfterInput(key, t) == handle_input(self, key, t)

CanFall(s) ==
    /\ s.current_piece # None
    /\ ~Blocked(s.board, CellsAt(s.current_piece, s.current_x, s.current_y + 1,
                                 s.current_rotation))

LockPass(key, t) ==
    /\ ~game_over
    /\ \E s1 \in {AfterInput(key, t)} :
          t - s1.fall_time >= 500 /\ ~CanFall(s1)

Written(s) ==
    LET cells == CellsAt(s.current_piece, s.current_x, s.current_y,
                         s.current_rotation)
        color == piece_colors[s.current_piece]
    IN [y \in 1..BOARD_HEIGHT |->
           [x \in 1..BOARD_WIDTH |->
               IF <<x - 1, y - 1>> \in cells THEN color ELSE s.board[y][x]]]

(* The function keys of a pass: f1..f4 and f5 all released, or all pressed *)
(* (while game_over is false the pass does not read f1..f4).               *)
FKeys == {<<FALSE, FALSE>>, <<TRUE, TRUE>>}

RowIsFull(row) == \A x \in DOMAIN row : row[x] # 0

RowNotFull(row) == ~RowIsFull(row)

RowIsEmpty(row) == \A x \in DOMAIN row : row[x] = 0

FullRowCount(b) == Cardinality({y \in DOMAIN b : RowIsFull(b[y])})

SpawnBlocked(b, p) == Blocked(b, CellsAt(p, BOARD_WIDTH \div 2, 0, 0))

(* C4: in a pass that locks the piece, with k the number of full rows of   *)
(* the board once the piece is written, lock_piece's clear_lines makes the *)
(* score grow by exactly k * 100, the top k rows of the new board empty,   *)
(* and the rows below them the rows that were not full, in their order and *)
(* unchanged; the pass ends with that board and that score.                *)
C4_LineClearLaw ==
    page # None
    => \A e \in ElapsedSet, key \in Keys :
          LockPass(key, now + e)
          => \E s1 \in {AfterInput(key, now + e)} :
             \E b \in {Written(s1)} :
             \E k \in {FullRowCount(b)} :
             \E r \in {clear_lines(lock_cells(s1))} :
             \E end \in {run_foreground(self, key, FALSE, FALSE, now + e, "I")} :
                /\ r.score = score + k * 100
                /\ Len(r.board) = BOARD_HEIGHT
                /\ \A y \in 1..k : RowIsEmpty(r.board[y])
                /\ SubSeq(r.board, k + 1, BOARD_HEIGHT) = SelectSeq(b, RowNotFull)
                /\ end.score = r.score
                /\ end.board = r.board

(* Two rows were cleared by one lock, and what was above them sits on the  *)
(* floor.                                                                  *)
C4_Witness ==
    /\ score = 200
    /\ now < 2 * fall_interval
    /\ RowIsEmpty(board[1])
    /\ RowIsEmpty(board[2])
    /\ ~RowIsEmpty(board[BOARD_HEIGHT])

(* C5: reset_game, from any reachable state and at any time, gives an      *)
(* empty board, score 0, game_over false, fall_time set to the time of the *)
(* call and the drawn piece at x = BOARD_WIDTH \div 2, y = 0, rotation 0;  *)
(* nothing else of the result depends on the state before, and a second    *)
(* reset right after, with the same draw, gives the same state again.      *)
C5_Reset ==
    \A p \in PieceTypes :
    \E r \in {reset_game(self, now, p)} :
       /\ \A y \in 1..BOARD_HEIGHT : RowIsEmpty(r.board[y])
       /\ Len(r.board) = BOARD_HEIGHT
       /\ r.score = 0
       /\ r.game_over = FALSE
       /\ r.fall_time = now
       /\ r.current_piece = p
       /\ r.current_x = BOARD_WIDTH \div 2
       /\ r.current_y = 0
       /\ r.current_rotation = 0
       /\ r.page = page
       /\ reset_game(r, now, p) = r

(* A game that is over in the foreground, with blocks in the top row: the  *)
(* state in which the restart keys call reset_game.                        *)
C5_Witness ==
    /\ game_over
    /\ page # None
    /\ now > 0
    /\ ~RowIsEmpty(board[1])

(* C6: game_over goes from false to true only in a pass of run_foreground *)
(* that locks a piece and whose new piece is blocked at the spawn          *)
(* position; it goes from true to false only in a pass of run_foreground   *)
(* that resets the game.                                                   *)
C6_GameOverTransitions ==
    [][/\ (~game_over /\ game_over')
          => /\ page # None
             /\ \E key \in Keys : LockPass(key, now')
             /\ board' # board
             /\ current_x' = BOARD_WIDTH \div 2
             /\ current_y' = 0
             /\ current_rotation' = 0
             /\ SpawnBlocked(board', current_piece')
       /\ (game_over /\ ~game_over')
          => /\ page # None
             /\ \A y \in 1..BOARD_HEIGHT : RowIsEmpty(board'[y])
             /\ score' = 0
             /\ fall_time' = now'
             /\ current_x' = BOARD_WIDTH \div 2
             /\ current_y' = 0
             /\ current_rotation' = 0]_vars

(* The pass that has just set game_over.                                   *)
C6_Witness ==
    /\ game_over
    /\ fall_time = now
    /\ now >= fall_interval

(* C7, as claimed: whenever game_over is true there is no active piece.    *)
C7_NoPieceWhenGameOver == game_over => current_piece = None

(* C7, amended: whenever game_over is true, the piece whose spawn collided *)
(* is still the current piece, at x = BOARD_WIDTH \div 2, y = 0 and        *)
(* rotation 0, on top of at least one occupied board cell.                 *)
C7_PieceKeptWhenGameOver ==
    game_over
    => /\ current_piece \in PieceTypes
       /\ current_x = BOARD_WIDTH \div 2
       /\ current_y = 0
       /\ current_rotation = 0
       /\ \A c \in ActiveCells : InWalls(c)
       /\ \E c \in ActiveCells : Filled(board, c)

(* Game over after an L piece was locked, with the pivot cell of the kept  *)
(* piece occupied.                                                         *)
C7_Witness ==
    /\ game_over
    /\ current_piece \in PieceTypes
    /\ Filled(board, <<BOARD_WIDTH \div 2, 0>>)
    /\ \E y \in 1..BOARD_HEIGHT, x \in 1..BOARD_WIDTH :
          board[y][x] = piece_colors["L"]

(* C8: in a pass made while game_over is false, with the key handled       *)
(* first: if the time since fall_time is at least fall_interval, a piece   *)
(* that can fall moves down one row and nothing is locked, and a piece     *)
(* that cannot is written into the board, the full rows are cleared and a  *)
(* new piece is spawned, with game_over set exactly when that spawn is     *)
(* blocked; either way fall_time becomes the time of the pass.  If the     *)
(* time since fall_time is below fall_interval, gravity changes nothing.   *)
C8_Gravity ==
    (page # None /\ ~game_over)
    => \A e \in ElapsedSet, key \in Keys :
       \E t \in {now + e} :
       \E s1 \in {AfterInput(key, t)} :
          IF t - s1.fall_time >= 500
          THEN IF CanFall(s1)
               THEN \A f \in FKeys :
                    \E r \in {run_foreground(self, key, f[1], f[2], t, "I")} :
                       /\ r.fall_time = t
                       /\ r.current_y = s1.current_y + 1
                       /\ r.current_x = s1.current_x
                       /\ r.current_rotation = s1.current_rotation
                       /\ r.current_piece = s1.current_piece
                       /\ r.board = board
                       /\ r.score = score
                       /\ r.game_over = FALSE
               ELSE \E b \in {Written(s1)} :
                    \E k \in {FullRowCount(b)} :
                    \A p \in PieceTypes :
                    \E r \in {run_foreground(self, key, FALSE, FALSE, t, p)} :
                       /\ r.fall_time = t
                       /\ SubSeq(r.board, k + 1, BOARD_HEIGHT) = SelectSeq(b, RowNotFull)
                       /\ \A y \in 1..k : RowIsEmpty(r.board[y])
                       /\ r.current_piece = p
                       /\ r.current_x = BOARD_WIDTH \div 2
                       /\ r.current_y = 0
                       /\ r.current_rotation = 0
                       /\ r.game_over = SpawnBlocked(r.board, p)
          ELSE \A f \in FKeys :
               \E r \in {run_foreground(self, key, f[1], f[2], t, "I")} :
                  /\ r.fall_time = s1.fall_time
                  /\ r.current_y = s1.current_y
                  /\ r.current_x = s1.current_x
                  /\ r.current_rotation = s1.current_rotation
                  /\ r.current_piece = s1.current_piece
                  /\ r.board = board
                  /\ r.score = score
                  /\ r.game_over = FALSE

(* A T piece has been locked by gravity and the next piece is falling.     *)
C8_Witness ==
    /\ ~game_over
    /\ fall_time = now
    /\ current_y = 0
    /\ \E y \in 1..BOARD_HEIGHT, x \in 1..BOARD_WIDTH :
          board[y][x] = piece_colors["T"]

(* C9: rotate() tests the rotation state (current_rotation + 1) mod the    *)
(* number of rotation states of the variant at the unchanged pivot: when a *)
(* cell of it is beyond a side wall or the floor or on an occupied cell,   *)
(* it returns false and changes nothing; otherwise it returns true and     *)
(* changes the rotation index to that state and nothing else.              *)
C9_Rotate ==
    current_piece # None
    => LET n == Len(PIECES[current_piece])
           next == (current_rotation + 1) % n
       IN \E r \in {rotate(self)} :
             IF Blocked(board, CellsAt(current_piece, current_x, current_y, next))
             THEN r.ret = FALSE /\ r.st = self
             ELSE r.ret = TRUE /\ r.st = [self EXCEPT !.current_rotation = next]

(* A falling piece whose next rotation state is blocked where it is and    *)
(* would fit one column to the right.                                      *)
C9_Witness ==
    /\ ~game_over
    /\ current_piece # None
    /\ current_y > 0
    /\ LET next == (current_rotation + 1) % Len(PIECES[current_piece])
       IN /\ Blocked(board, CellsAt(current_piece, current_x, current_y, next))
          /\ ~Blocked(board, CellsAt(current_piece, current_x + 1, current_y, next))

(* C10: when the application has just been brought to the foreground for   *)
(* a new game (empty board, score 0, game_over false, fall_time the        *)
(* present time), a pass with no elapsed time and no key leaves a piece    *)
(* present, the board empty, the score 0 and game_over false.              *)
C10_FirstPass ==
    (/\ page # None
     /\ \A y \in 1..BOARD_HEIGHT : RowIsEmpty(board[y])
     /\ score = 0
     /\ ~game_over
     /\ fall_time = now)
    => \A f14 \in BOOLEAN, f5 \in BOOLEAN, p \in PieceTypes :
       \E r \in {run_foreground(self, "NONE", f14, f5, now, p)} :
          /\ r.current_piece \in PieceTypes
          /\ \A y \in 1..BOARD_HEIGHT : RowIsEmpty(r.board[y])
          /\ r.score = 0
          /\ r.game_over = FALSE

(* The application right after its first switch to the foreground.         *)
C10_Witness ==
    /\ page # None
    /\ now = 0
    /\ fall_time = 0
    /\ board = EmptyBoard
    /\ score = 0
    /\ ~game_over
    /\ current_piece \in PieceTypes
    /\ current_x = BOARD_WIDTH \div 2
    /\ current_y = 0
    /\ current_rotation = 0

(* C11: while game_over is false, a DOWN key whose move succeeds (the      *)
(* piece goes down one row) sets fall_time to the time of the pass, so     *)
(* gravity does nothing in that pass nor in a later pass made less than    *)
(* fall_interval after it; a DOWN key whose move fails, and a LEFT, RIGHT  *)
(* or UP key whether it succeeds or not, leaves fall_time as it was.       *)
C11_SoftDropRestartsTimer ==
    (page # None /\ ~game_over)
    => \A e \in ElapsedSet, key \in Keys \ {"NONE"} :
       \E t \in {now + e} :
       \E s1 \in {AfterInput(key, t)} :
          IF key = "DOWN" /\ CanFall(self)
          THEN /\ s1.current_y = current_y + 1
               /\ s1.fall_time = t
               /\ \A d \in ElapsedSet, p \in PieceTypes :
                     d < fall_interval => auto_fall(s1, t + d, p) = s1
          ELSE /\ s1.fall_time = fall_time
               /\ s1.current_y = current_y

(* A soft drop has just moved the piece, less than fall_interval after the *)
(* game was brought to the foreground.                                     *)
C11_Witness ==
    /\ page # None
    /\ ~game_over
    /\ current_y > 0
    /\ now > 0
    /\ now < fall_interval
    /\ fall_time = now

(* C12: move_left, move_right and move_down return true exactly when       *)
(* check_collision at dx = -1, dx = +1, dy = +1 is false, and then shift   *)
(* the pivot by exactly that one cell; otherwise they return false and     *)
(* change nothing.  Either way the rotation, the board, the score and      *)
(* game_over are as before, and a pass with a DOWN key that fails, made    *)
(* before gravity is due, leaves the piece unlocked and the state as it    *)
(* was.                                                                    *)
C12_TranslateGate ==
    LET Gate(r, dx, dy) ==
            /\ r.ret = ~check_collision(self, dx, dy, NoRotation)
            /\ r.st = IF r.ret
                      THEN [self EXCEPT !.current_x = current_x + dx,
                                        !.current_y = current_y + dy]
                      ELSE self
            /\ r.st.current_rotation = current_rotation
            /\ r.st.board = board
            /\ r.st.score = score
            /\ r.st.game_over = game_over
    IN /\ Gate(move_left(self), -1, 0)
       /\ Gate(move_right(self), 1, 0)
       /\ Gate(move_down(self), 0, 1)
       /\ (page # None /\ ~game_over /\ ~move_down(self).ret)
          => \A e \in ElapsedSet, p \in PieceTypes :
                now + e - fall_time < fall_interval
                => run_foreground(self, "DOWN", FALSE, FALSE, now + e, p) = self

(* A piece resting on the floor against the left wall, with room on its    *)
(* right, before gravity is due: moving left and down fail, moving right   *)
(* succeeds.                                                               *)
C12_Witness ==
    /\ page # None
    /\ ~game_over
    /\ current_piece # None
    /\ now - fall_time < fall_interval
    /\ \E c \in ActiveCells : c[1] = 0
    /\ \E c \in ActiveCells : c[2] = BOARD_HEIGHT - 1
    /\ ~Blocked(board, CellsAt(current_piece, current_x + 1, current_y,
                               current_rotation))

(* C13: in a pass that locks the piece, the board right after the piece    *)
(* is written and before the lines are cleared has the colour of the       *)
(* piece in exactly the cells of the piece whose row is >= 0, each of      *)
(* which was empty before, and in every other cell the value it had; the   *)
(* cells of the piece with a row < 0 are written nowhere.                  *)
C13_LockWrites ==
    page # None
    => \A e \in ElapsedSet, key \in Keys :
          LockPass(key, now + e)
          => \E s1 \in {AfterInput(key, now + e)} :
             \E b \in {lock_cells(s1).board} :
             \E cells \in {CellsAt(s1.current_piece, s1.current_x, s1.current_y,
                                   s1.current_rotation)} :
                /\ DOMAIN b = 1..BOARD_HEIGHT
                /\ \A y \in 1..BOARD_HEIGHT :
                      /\ DOMAIN b[y] = 1..BOARD_WIDTH
                      /\ \A x \in 1..BOARD_WIDTH :
                            IF <<x - 1, y - 1>> \in cells
                            THEN /\ b[y][x] = piece_colors[s1.current_piece]
                                 /\ s1.board[y][x] = 0
                            ELSE b[y][x] = s1.board[y][x]
                /\ lock_piece(s1, "I").board
                      = clear_loop(b, BOARD_HEIGHT - 1, 0).board

(* A T piece was locked where it spawned, with no line cleared: three of   *)
(* its cells are in the top row of the board and the fourth, which was     *)
(* above the board, is nowhere.                                            *)
C13_Witness ==
    /\ score = 0
    /\ fall_time = now
    /\ now >= fall_interval
    /\ Cardinality({c \in (1..BOARD_HEIGHT) \X (1..BOARD_WIDTH) :
                       board[c[1]][c[2]] = piece_colors["T"]}) = 3
    /\ \A c \in CellsAt("T", BOARD_WIDTH \div 2, 0, 0) :
          c[2] >= 0 => board[c[2] + 1][c[1] + 1] = piece_colors["T"]

(* The offsets and rotation arguments check_collision is called with: no   *)
(* offset or one cell to the left, to the right or down, and a rotation    *)
(* index or none.                                                          *)
Offsets == {<<0, 0>>, <<-1, 0>>, <<1, 0>>, <<0, 1>>}

RotationArgs == {NoRotation} \cup 0..3

(* C14: with an active piece, check_collision(dx, dy, rotation) is true    *)
(* exactly when one of the 4 cells of the given rotation state (the        *)
(* current one when none is given) at the pivot moved by (dx, dy) has      *)
(* x < 0, x >= BOARD_WIDTH or y >= BOARD_HEIGHT, or has y >= 0 and is on a *)
(* non-empty board cell; a cell with y < 0 counts only through its x.      *)
C14_CheckCollision ==
    current_piece # None
    => \A d \in Offsets, rotation \in RotationArgs :
          LET rot == IF rotation = NoRotation THEN current_rotation ELSE rotation
              cells == CellsAt(current_piece, current_x + d[1],
                               current_y + d[2], rot)
          IN /\ Cardinality(cells) = 4
             /\ check_collision(self, d[1], d[2], rotation)
                = \E c \in cells :
                     \/ c[1] < 0
                     \/ c[1] >= BOARD_WIDTH
                     \/ c[2] >= BOARD_HEIGHT
                     \/ (c[2] >= 0 /\ board[c[2] + 1][c[1] + 1] # 0)

(* A falling piece that cannot move left only because a cell of it above   *)
(* the board would pass the left wall: all its cells of a row >= 0 would   *)
(* be inside the walls and on empty cells.                                 *)
C14_Witness ==
    /\ ~game_over
    /\ current_piece # None
    /\ current_x # BOARD_WIDTH \div 2
    /\ \E cells \in {CellsAt(current_piece, current_x - 1, current_y,
                             current_rotation)} :
          /\ \E c \in cells : c[2] < 0 /\ c[1] < 0
          /\ \A c \in cells : c[2] >= 0 => (InWalls(c) /\ ~Filled(board, c))

(* C15: in every reachable state the board has exactly BOARD_HEIGHT rows   *)
(* and every row has exactly BOARD_WIDTH cells.                            *)
C15_BoardDimensions ==
    /\ DOMAIN board = 1..BOARD_HEIGHT
    /\ \A y \in DOMAIN board : DOMAIN board[y] = 1..BOARD_WIDTH

(* One line has been cleared: the top row is the inserted empty row and    *)
(* blocks remain on the floor.                                             *)
C15_Witness ==
    /\ score = 100
    /\ Len(board) = BOARD_HEIGHT
    /\ RowIsEmpty(board[1])
    /\ ~RowIsEmpty(board[BOARD_HEIGHT])

(* C16: in every reachable state (the states between two passes) no row   *)
(* of the board is fully occupied: the scan of clear_lines ends, and has   *)
(* removed every full row the lock produced, adjacent ones included,       *)
(* before the next piece is spawned.                                       *)
C16_NoFullRow ==
    \A y \in DOMAIN board : \E x \in DOMAIN board[y] : board[y][x] = 0

(* A lock has just filled two adjacent rows, both were removed, and the    *)
(* next piece is at the spawn position.                                    *)
C16_Witness ==
    /\ score = 2 * LINE_SCORE
    /\ fall_time = now
    /\ current_piece # None
    /\ current_x = BOARD_WIDTH \div 2
    /\ current_y = 0
    /\ FullRowCount(board) = 0

(* C17: in a pass made while game_over is false, whatever the key and the  *)
(* elapsed time: when the piece is not locked it is still the same piece,  *)
(* in the same row or one row lower; after a DOWN key that moved it, it is *)
(* exactly one row lower, the board is untouched and the pass does not     *)
(* lock; and a pass that locks writes the piece in the row it was in       *)
(* before the pass.  Bringing the application to the foreground leaves the *)
(* row of an existing piece as it is.                                      *)
C17_OneRowPerPass ==
    /\ (page # None /\ ~game_over /\ current_piece # None)
       => \A e \in ElapsedSet, key \in Keys :
          \E t \in {now + e} :
             IF LockPass(key, t)
             THEN /\ ~(key = "DOWN" /\ CanFall(self))
                  /\ AfterInput(key, t).current_y = current_y
             ELSE \E r \in {run_foreground(self, key, FALSE, FALSE, t, "I")} :
                     /\ r.current_piece = current_piece
                     /\ r.current_y \in {current_y, current_y + 1}
                     /\ r.board = board
                     /\ (key = "DOWN" /\ CanFall(self))
                        => r.current_y = current_y + 1
    /\ (page = None /\ current_piece # None)
       => \A e \in ElapsedSet :
             switch_to_foreground(self, now + e, "I").current_y = current_y

(* A piece one row below the spawn row right after a pass made a full      *)
(* fall interval after the previous one, nothing locked yet.               *)
C17_Witness ==
    /\ page # None
    /\ ~game_over
    /\ current_y = 1
    /\ fall_time = now
    /\ now >= fall_interval
    /\ board \in StartBoards

(***************************************************************************)
(* The life of one piece.  LiveSpec follows the piece that has just been   *)
(* spawned on a start board through the passes of run_foreground made      *)
(* while the application stays in the foreground (f5 not pressed),         *)
(* whatever the keys, until the pass that locks it: a lock changes the     *)
(* board, and no lock turns a start board into a start board.  Time has    *)
(* advanced at every pass.  The host calls run_foreground again and again  *)
(* while the application is in the foreground (every foreground_sleep_ms), *)
(* and the clock is read at each pass: the clock keeps advancing as long   *)
(* as a pass can be made, which is the fairness of LiveSpec.  LifeTime is  *)
(* how far the clock is followed: two fall intervals for every row of the  *)
(* board.                                                                  *)
(***************************************************************************)
LifeTime == 2 * fall_interval * BOARD_HEIGHT

LiveBoards == StartBoards

(* The piece spawned at the start is still falling.                        *)
Unlocked ==
    /\ page # None
    /\ ~game_over
    /\ board \in LiveBoards
    /\ score = 0

LiveInit ==
    /\ now = 0
    /\ \E b \in LiveBoards, p \in PieceTypes :
       \E s \in {MidGame(b, p)} :
          /\ ~s.game_over
          /\ board = s.board
          /\ current_piece = s.current_piece
          /\ current_x = s.current_x
          /\ current_y = s.current_y
          /\ current_rotation = s.current_rotation
          /\ fall_time = s.fall_time
          /\ score = s.score
          /\ game_over = s.game_over
          /\ page = s.page

LivePass(e, key) ==
    /\ Unlocked
    /\ now + e <= LifeTime
    /\ \E piece_type \in Draws(run_foreground(self, key, FALSE, FALSE, now + e, "I"),
                                run_foreground(self, key, FALSE, FALSE, now + e, "O")) :
          \E s \in {run_foreground(self, key, FALSE, FALSE, now + e, piece_type)} :
             Commit(s, now + e)

LiveNext == \E e \in ElapsedSet \ {0}, key \in Keys : LivePass(e, key)

(* The clock as the passes of LiveNext move it.                             *)
ClockAdvances ==
    /\ Unlocked
    /\ \E e \in ElapsedSet \ {0} : now + e <= LifeTime /\ now' = now + e

LiveSpec == LiveInit /\ [][LiveNext]_vars /\ WF_now(ClockAdvances)

(* C18: while game_over is false and the application stays in the          *)
(* foreground, if run_foreground keeps being called and time keeps         *)
(* advancing, the piece that is falling is eventually locked (the board    *)
(* changes and a new piece is spawned, or game_over is set), whatever the  *)
(* keys pressed in the passes; and every pass that changes the board ends  *)
(* the life of the piece.                                                  *)
C18_PieceEventuallyLocked ==
    /\ Unlocked ~> ~Unlocked
    /\ [][(Unlocked /\ board' # board) => ~Unlocked']_vars

(* A piece was locked, and the game goes on, after it was kept falling     *)
(* for more than three fall intervals.                                     *)
C18_Witness ==
    /\ page # None
    /\ ~game_over
    /\ board \notin LiveBoards
    /\ fall_time = now
    /\ now > 3 * fall_interval

(***************************************************************************)
(* A game without directional input.  NoInputSpec starts from the game as  *)
(* reset_game leaves it, in the foreground, and makes passes in which      *)
(* read_key() gives no key and no function key is pressed, time having     *)
(* advanced at every pass, with every outcome of random.choice at every    *)
(* spawn, until game_over is set.  The clock keeps advancing as long as a  *)
(* pass can be made, as in LiveSpec.  Every piece falls straight down from *)
(* the spawn column; GameTime is how far the clock is followed: two fall   *)
(* intervals for every descent and lock of the longest game, the one in    *)
(* which each lock raises the stack by one row.                            *)
(***************************************************************************)
GameTime == 2 * fall_interval * ((BOARD_HEIGHT * (BOARD_HEIGHT + 1)) \div 2)

NoInputInit ==
    /\ now = 0
    /\ \E p \in PieceTypes :
       \E s \in {reset_game([Constructed EXCEPT !.page = "Page"], 0, p)} :
          /\ board = s.board
          /\ current_piece = s.current_piece
          /\ current_x = s.current_x
          /\ current_y = s.current_y
          /\ current_rotation = s.current_rotation
          /\ fall_time = s.fall_time
          /\ score = s.score
          /\ game_over = s.game_over
          /\ page = s.page

NoInputPass(e) ==
    /\ page # None
    /\ ~game_over
    /\ now + e <= GameTime
    /\ \E piece_type \in Draws(run_foreground(self, "NONE", FALSE, FALSE, now + e, "I"),
                                run_foreground(self, "NONE", FALSE, FALSE, now + e, "O")) :
          \E s \in {run_foreground(self, "NONE", FALSE, FALSE, now + e, piece_type)} :
             Commit(s, now + e)

NoInputNext == \E e \in ElapsedSet \ {0} : NoInputPass(e)

(* The clock as the passes of NoInputNext move it.                         *)
NoInputClock ==
    /\ page # None
    /\ ~game_over
    /\ \E e \in ElapsedSet \ {0} : now + e <= GameTime /\ now' = now + e

NoInputSpec == NoInputInit /\ [][NoInputNext]_vars /\ WF_now(NoInputClock)

(* C19: from a freshly reset game, when every pass has no key and time     *)
(* keeps advancing, whatever the pieces drawn: game_over eventually        *)
(* becomes true, the score is 0 all the way (no line is cleared), and      *)
(* every piece stays in the spawn column.                                  *)
C19_NoInputGameOver ==
    /\ <>game_over
    /\ [](score = 0)
    /\ [](current_x = BOARD_WIDTH \div 2)

(* The game is over with score 0: the stack of pieces that fell straight   *)
(* down has reached the top row, the first column never received a block.  *)
C19_Witness ==
    /\ game_over
    /\ score = 0
    /\ \A y \in 1..BOARD_HEIGHT : ~RowIsEmpty(board[y]) /\ board[y][1] = 0

=============================================================================
